---- MODULE Spec2Model ----
(***************************************************************************)
(* Model of the model registry (admin_app.py, public_app_v0.py) and of the *)
(* CSV-to-JSONL training-set builder (admin_app.py).                       *)
(*                                                                         *)
(* Strings are sequences of atoms.  The atom " " is one whitespace         *)
(* character; every other atom is a non-empty run of non-whitespace        *)
(* characters (single letters where case matters).                         *)
(***************************************************************************)
EXTENDS Naturals, Sequences, FiniteSets, TLC

VARIABLES
    disk,          \* content of my_saved_models.json
    initialized,   \* "fine_tuned_models" in st.session_state
    session,       \* st.session_state["fine_tuned_models"]
    jsonl_file,    \* "jsonl_file" in st.session_state
    job,           \* st.session_state["current_finetune_job"], NoJob if absent
    last,          \* the last registry operation, its inputs and its notices
    ops,           \* number of registry mutations attempted so far
    csv,           \* the uploaded CSV file
    outFile,       \* content of filtered_data.jsonl
    lastBuild,     \* the last call of build_jsonl_for_senders and its result
    multiselect,   \* the grouped sender picker: its options and its value
    publicView,    \* what the last run of the public application produced
    writer,        \* a save_saved_models of another process, while it runs
    other          \* a second admin session on the same file

vars == <<disk, initialized, session, jsonl_file, job, last, ops,
          csv, outFile, lastBuild, multiselect, publicView, writer, other>>

registryVars == <<disk, initialized, session, job, last, ops, publicView,
                  writer, other>>
builderVars == <<csv, outFile, lastBuild, multiselect, jsonl_file>>
peerVars == <<writer, other>>

-----------------------------------------------------------------------------
(* Bounds of the model. *)

MaxOps == 2        \* registry mutations per behaviour
MaxRows == 2       \* data rows of the uploaded CSV file
MaxSelected == 2   \* senders picked in the multiselect

-----------------------------------------------------------------------------
(* Strings: str.strip(), str.lower(), truthiness. *)

Whitespace == {" "}

RECURSIVE LStrip(_)
LStrip(s) ==
    IF s # <<>> /\ Head(s) \in Whitespace THEN LStrip(Tail(s)) ELSE s

RECURSIVE RStrip(_)
RStrip(s) ==
    IF s # <<>> /\ s[Len(s)] \in Whitespace
    THEN RStrip(SubSeq(s, 1, Len(s) - 1))
    ELSE s

\* A strip() that removes nothing.
StripNothing(s) == s

Strip(s) == RStrip(LStrip(s))

LowerChar(c) ==
    CASE c = "A" -> "a"
      [] c = "B" -> "b"
      [] OTHER -> c

Lower(s) == [i \in 1..Len(s) |-> LowerChar(s[i])]

Truthy(s) == s # <<>>

-----------------------------------------------------------------------------
(* Dictionaries are functions; these are the dict operations the code uses. *)

EmptyDict == [a \in {} |-> TRUE]

\* An assignment that keeps the value of a key that is already present.
PutIfAbsent(d, k, v) == [a \in DOMAIN d \cup {k} |-> IF a \in DOMAIN d THEN d[a] ELSE v]

\* d[k] = v
Put(d, k, v) == [a \in DOMAIN d \cup {k} |-> IF a = k THEN v ELSE d[a]]

-----------------------------------------------------------------------------
(* 0. Default/Pre-created fine-tuned models. *)

Alias1 == <<"model_AlSpfqGn">>
Alias2 == <<"model_AlTffoN4">>
Alias3 == <<"model_AlTewxyb">>

Entry(i, p) == [id |-> i, public |-> p]

PRE_CREATED_MODELS ==
    (Alias1 :> Entry(<<"ft:gpt-3.5-turbo-0125:personal::AlSpfqGn">>, TRUE))
    @@ (Alias2 :> Entry(<<"ft:gpt-3.5-turbo-0125:personal::AlTffoN4">>, FALSE))
    @@ (Alias3 :> Entry(<<"ft:gpt-3.5-turbo-0125:personal::AlTewxyb">>, TRUE))

-----------------------------------------------------------------------------
(* 1. The JSON file.  A file is missing, unreadable (not JSON, truncated,  *)
(* no permission), JSON that is not an object, or a JSON object mapping    *)
(* aliases to values.  A value is a string, an object with any of the keys *)
(* "id" and "public", or something else (number, list, null).              *)

FileMissing == [t |-> "missing"]
FileUnreadable == [t |-> "unreadable"]
FileNotDict == [t |-> "notdict"]
FileDict(d) == [t |-> "dict", d |-> d]

JsonStr(s) == [t |-> "str", s |-> s]
JsonObj(o) == [t |-> "obj", o |-> o]
JsonOther == [t |-> "other"]

EmptyObj == [k \in {} |-> TRUE]

\* One value of the file, as load_saved_models converts it; Skip for the
\* values it leaves out of the result.
Skip == [skip |-> TRUE]
Kept(e) == [skip |-> FALSE, e |-> e]

\* A conversion that gives an entry without "public" the value False.
ConvertValueDefaultPrivate(val) ==
    IF val.t = "str" THEN Kept(Entry(val.s, TRUE))
    ELSE IF val.t = "obj" THEN
        IF "id" \notin DOMAIN val.o THEN Skip
        ELSE IF "public" \notin DOMAIN val.o
             THEN Kept(Put(val.o, "public", FALSE))
             ELSE Kept(val.o)
    ELSE Skip

ConvertValue(val) ==
    IF val.t = "str" THEN Kept(Entry(val.s, TRUE))
    ELSE IF val.t = "obj" THEN
        IF "id" \notin DOMAIN val.o THEN Skip
        ELSE IF "public" \notin DOMAIN val.o
             THEN Kept(Put(val.o, "public", TRUE))
             ELSE Kept(val.o)
    ELSE Skip

Converted(data) ==
    LET kept == {a \in DOMAIN data : ~ConvertValue(data[a]).skip}
    IN  [a \in kept |-> ConvertValue(data[a]).e]

\* load_saved_models of admin_app.py: the mapping returned and whether
\* st.warning was called.
load_saved_models(file) ==
    IF file.t = "missing" THEN [models |-> EmptyDict, warned |-> FALSE]
    ELSE IF file.t = "unreadable" THEN [models |-> EmptyDict, warned |-> TRUE]
    ELSE IF file.t = "dict" THEN [models |-> Converted(file.d), warned |-> FALSE]
    ELSE [models |-> EmptyDict, warned |-> FALSE]

\* json.dump of a dictionary of entries: every entry becomes a JSON object.
JsonDump(models_dict) ==
    FileDict([a \in DOMAIN models_dict |-> JsonObj(models_dict[a])])

\* save_saved_models: the file afterwards.  The write succeeds ("ok"), open()
\* raises and the file is left as it was ("open_fails"), or the write raises
\* after open(..., "w") truncated the file ("write_fails").
SaveOutcomes == {"ok", "open_fails", "write_fails"}

save_saved_models(file, models_dict, outcome) ==
    CASE outcome = "ok" -> JsonDump(models_dict)
      [] outcome = "open_fails" -> file
      [] OTHER -> FileUnreadable

\* A save whose failure is swallowed without a notice.
SaveNoticesSilent(outcome) == {}

SaveNotices(outcome) == IF outcome = "ok" THEN {} ELSE {"error:save"}
LoadNotices(r) == IF r.warned THEN {"warning:load"} ELSE {}

-----------------------------------------------------------------------------
(* 4.B Load or merge existing models. *)

\* A merge that lets the built-in entry win over the entry of the file.
MergeModelsBuiltinFirst(builtin, user_models) ==
    [a \in DOMAIN builtin \cup DOMAIN user_models |->
        IF a \in DOMAIN builtin THEN builtin[a] ELSE user_models[a]]

\* merged_models = dict(PRE_CREATED_MODELS); merged_models[alias] = data_dict
MergeModels(builtin, user_models) ==
    [a \in DOMAIN builtin \cup DOMAIN user_models |->
        IF a \in DOMAIN user_models THEN user_models[a] ELSE builtin[a]]

\* "current_finetune_job" not in st.session_state.
NoJob == <<>>

NoArgs == [alias |-> <<>>, id |-> <<>>, public |-> TRUE,
           updated |-> EmptyDict, removed |-> {}, save |-> "none",
           job |-> NoJob]

Last(op, args, notices) ==
    [op |-> op, alias |-> args.alias, id |-> args.id, public |-> args.public,
     updated |-> args.updated, removed |-> args.removed, save |-> args.save,
     job |-> args.job, notices |-> notices]

InitSession ==
    /\ ~initialized
    /\ LET r == load_saved_models(disk)
       IN  /\ session' = MergeModels(PRE_CREATED_MODELS, r.models)
           /\ last' = Last("init", NoArgs, LoadNotices(r))
    /\ initialized' = TRUE
    /\ UNCHANGED <<disk, job, ops, publicView>>
    /\ UNCHANGED peerVars
    /\ UNCHANGED builderVars

-----------------------------------------------------------------------------
(* TAB 2: Manage Models. *)


\* model_info.get("public", True)
GetPublic(model_info) ==
    IF "public" \in DOMAIN model_info THEN model_info["public"] ELSE TRUE

\* The form of the expanders: one row per alias of the session, holding the
\* entry's values unless the user edited the row.
FormData(all_models, edits) ==
    [a \in DOMAIN all_models |->
        IF a \in DOMAIN edits
        THEN edits[a]
        ELSE Entry(all_models[a]["id"], GetPublic(all_models[a]))]

\* for alias, val in updated_data.items():
\*     if alias not in removed_aliases: target[alias] = val
ApplyUpdates(target, updated_data, removed_aliases) ==
    LET upd == DOMAIN updated_data \ removed_aliases
    IN  [a \in DOMAIN target \cup upd |->
            IF a \in upd THEN updated_data[a] ELSE target[a]]

\* for r_alias in removed_aliases:
\*     if r_alias in target: del target[r_alias]
RemoveAliases(target, removed_aliases) ==
    [a \in DOMAIN target \ removed_aliases |-> target[a]]

\* Lines 323-330: the session after "Save All Changes".
SessionAfterSave(models, updated_data, removed_aliases) ==
    RemoveAliases(ApplyUpdates(models, updated_data, removed_aliases),
                  removed_aliases)

\* A save that applies the updates to the file's mapping and forgets the
\* removals.
UserModelsKeepRemoved(user_models, updated_data, removed_aliases) ==
    ApplyUpdates(user_models, updated_data, removed_aliases)

\* Lines 335-340: the mapping "Save All Changes" writes to the file.
UserModelsAfterSave(user_models, updated_data, removed_aliases) ==
    RemoveAliases(ApplyUpdates(user_models, updated_data, removed_aliases),
                  removed_aliases)

\* The button "Save All Changes".
SaveAllChanges(edits, removed_aliases, outcome) ==
    /\ initialized
    /\ ops < MaxOps
    /\ session # EmptyDict
    /\ LET updated_data == FormData(session, edits)
           r == load_saved_models(disk)
           user_models ==
               UserModelsAfterSave(r.models, updated_data, removed_aliases)
       IN  /\ session' = SessionAfterSave(session, updated_data, removed_aliases)
           /\ disk' = save_saved_models(disk, user_models, outcome)
           /\ last' = Last("save_all",
                           [NoArgs EXCEPT !.updated = updated_data,
                                          !.removed = removed_aliases,
                                          !.save = outcome],
                           LoadNotices(r) \cup SaveNotices(outcome)
                               \cup {"success:all_saved"})
    /\ ops' = ops + 1
    /\ UNCHANGED <<initialized, job, publicView>>
    /\ UNCHANGED peerVars
    /\ UNCHANGED builderVars

\* The button "Add/Update Model".
AddUpdateModel(alias_in, id_in, public_in, outcome) ==
    /\ initialized
    /\ ops < MaxOps
    /\ IF Truthy(Strip(alias_in)) /\ Truthy(Strip(id_in))
       THEN LET r == load_saved_models(disk)
                user_models == Put(r.models, alias_in, Entry(id_in, public_in))
            IN  /\ session' = Put(session, alias_in, Entry(id_in, public_in))
                /\ disk' = save_saved_models(disk, user_models, outcome)
                /\ last' = Last("add_update",
                                [NoArgs EXCEPT !.alias = alias_in, !.id = id_in,
                                               !.public = public_in,
                                               !.save = outcome],
                                LoadNotices(r) \cup SaveNotices(outcome)
                                    \cup {"success:added"})
       ELSE /\ outcome = "ok"
            /\ last' = Last("add_update",
                            [NoArgs EXCEPT !.alias = alias_in, !.id = id_in,
                                           !.public = public_in],
                            {"warning:validation"})
            /\ UNCHANGED <<session, disk>>
    /\ ops' = ops + 1
    /\ UNCHANGED <<initialized, job, publicView>>
    /\ UNCHANGED peerVars
    /\ UNCHANGED builderVars

-----------------------------------------------------------------------------
(* 2. CSV reading and JSONL building. *)

From == "Parsed From"
Subject == "Parsed Subject"
Body == "Parsed Body"

\* A value of a row dictionary: a string or None.
StrVal(s) == [none |-> FALSE, s |-> s]
NoneVal == [none |-> TRUE]

Range(f) == {f[i] : i \in DOMAIN f}
IndexOf(seq, x) == CHOOSE i \in DOMAIN seq : seq[i] = x

\* csv.DictReader: one dictionary per non-empty line, keyed by the header;
\* a line shorter than the header gets None (restval) for the missing fields.
DictRow(header, cells) ==
    [c \in Range(header) |->
        IF IndexOf(header, c) <= Len(cells)
        THEN StrVal(cells[IndexOf(header, c)])
        ELSE NoneVal]

RECURSIVE DictReader(_, _)
DictReader(header, lines) ==
    IF lines = <<>> THEN <<>>
    ELSE IF Head(lines) = <<>> THEN DictReader(header, Tail(lines))
    ELSE <<DictRow(header, Head(lines))>> \o DictReader(header, Tail(lines))

\* read_rows_from_multiple_csvs, for the one uploaded file.
read_rows(file) == DictReader(file.header, file.lines)

\* row.get(key, default)
Get(row, key, default) == IF key \in DOMAIN row THEN row[key] ELSE default

\* (row.get("Parsed From") or "")
SenderOf(row) ==
    LET v == Get(row, From, NoneVal)
    IN  IF v.none THEN <<>> ELSE v.s

UserContent(subject) ==
    <<"Subject: ">> \o subject
        \o <<"\nPlease respond with the email body style.">>

DataLine(subject, body) ==
    [messages |-> << [role |-> "user", content |-> UserContent(subject)],
                     [role |-> "assistant", content |-> body] >>]

\* The loop of build_jsonl_for_senders from row i on.  acc holds the lines
\* written so far, the indices of the rows that passed the sender test, the
\* number of rows the test was applied to, and how the loop ended: None has
\* no strip(), so a None subject or body of a selected row raises
\* AttributeError.
RECURSIVE BuildLoop(_, _, _, _)
BuildLoop(all_rows, lower_senders, i, acc) ==
    IF i > Len(all_rows) THEN acc
    ELSE
        LET row == all_rows[i]
            parsed_sender == Lower(Strip(SenderOf(row)))
            seen == [acc EXCEPT !.examined = i]
        IN  IF \E k \in DOMAIN lower_senders : lower_senders[k] = parsed_sender
            THEN LET sv == Get(row, Subject, StrVal(<<>>))
                     bv == Get(row, Body, StrVal(<<>>))
                     taken == [seen EXCEPT !.taken = Append(@, i)]
                 IN  IF sv.none \/ bv.none
                     THEN [taken EXCEPT !.status = "AttributeError"]
                     ELSE BuildLoop(all_rows, lower_senders, i + 1,
                              [taken EXCEPT
                                  !.lines = Append(@, DataLine(Strip(sv.s),
                                                               Strip(bv.s))),
                                  !.count = @ + 1])
            ELSE BuildLoop(all_rows, lower_senders, i + 1, seen)

\* A list of selected senders compared as given, not lower-cased.
LowerSendersAsGiven(selected_senders) == selected_senders

\* lower_senders = [s.lower() for s in selected_senders]
LowerSenders(selected_senders) ==
    [k \in DOMAIN selected_senders |-> Lower(selected_senders[k])]

\* build_jsonl_for_senders: open(output_jsonl, "w") empties the file, the
\* loop writes it, and the count is returned when no exception was raised.
build_jsonl_for_senders(all_rows, selected_senders) ==
    BuildLoop(all_rows, LowerSenders(selected_senders), 1,
              [lines |-> <<>>, taken |-> <<>>, examined |-> 0, count |-> 0,
               status |-> "returned"])

NoBuild ==
    [called |-> FALSE, selected |-> <<>>, status |-> "none", count |-> 0,
     taken |-> <<>>, examined |-> 0]

BuildRecord(selected_senders, b) ==
    [called |-> TRUE, selected |-> selected_senders, status |-> b.status,
     count |-> b.count, taken |-> b.taken, examined |-> b.examined]

NoFile == [exists |-> FALSE, lines |-> <<>>]
FileWith(lines) == [exists |-> TRUE, lines |-> lines]

-----------------------------------------------------------------------------
(* TAB 3: Fine-tune a new model. *)

\* Lines 391-396: the distinct non-empty trimmed senders of the rows.
Senders(all_rows) ==
    {Strip(SenderOf(all_rows[i])) : i \in DOMAIN all_rows} \ {<<>>}

\* What the multiselect can return: the chosen senders, each once.
Distinct(seq) == \A i, j \in DOMAIN seq : i # j => seq[i] # seq[j]

GuiSelections(senders) ==
    {sel \in UNION {[1..n -> senders] : n \in 1..MaxSelected} : Distinct(sel)}

\* The effect of one call of build_jsonl_for_senders on the output file.
RunBuild(all_rows, selected_senders) ==
    LET b == build_jsonl_for_senders(all_rows, selected_senders)
    IN  /\ outFile' = FileWith(b.lines)
        /\ lastBuild' = BuildRecord(selected_senders, b)

\* The button "Generate JSONL for Selected Senders".
GenerateJsonl(selected_senders) ==
    /\ initialized
    /\ csv.uploaded
    /\ LET all_rows == read_rows(csv)
       IN  /\ all_rows # <<>>
           /\ selected_senders \in GuiSelections(Senders(all_rows))
           /\ RunBuild(all_rows, selected_senders)
    /\ jsonl_file' = (jsonl_file \/ (lastBuild'.status = "returned"
                                     /\ lastBuild'.count > 0))
    /\ UNCHANGED <<csv, multiselect>>
    /\ UNCHANGED registryVars

\* Line 123: str.split()[0], the first run of non-whitespace characters.
RECURSIVE TakeToken(_)
TakeToken(s) ==
    IF s = <<>> \/ Head(s) \in Whitespace
    THEN <<>>
    ELSE <<Head(s)>> \o TakeToken(Tail(s))

FirstToken(s) == TakeToken(LStrip(s))

\* Lines 121-123.  The senders it is called with are trimmed and non-empty.
get_first_name(full_name) ==
    IF Truthy(full_name) THEN FirstToken(full_name) ELSE <<>>

\* sorted(): the strings of the model in the order Python compares them.
SortOrder ==
    << <<"Al", " ", "(All", " ", "variations)">>,
       <<"Al", " ", "J">>,
       <<"Al", " ", "S">>,
       <<"Bob">>,
       <<"Bob", " ", "(All", " ", "variations)">>,
       <<"Bob", " ", "L">>,
       <<"Cy", " ", "(All", " ", "variations)">>,
       <<"Cy", " ", "Z">>,
       <<"a">>,
       <<"b">> >>

Rank(x) == CHOOSE i \in DOMAIN SortOrder : SortOrder[i] = x

Insert(x, seq) ==
    LET k == Cardinality({i \in DOMAIN seq : Rank(seq[i]) <= Rank(x)})
    IN  SubSeq(seq, 1, k) \o <<x>> \o SubSeq(seq, k + 1, Len(seq))

RECURSIVE sorted(_)
sorted(seq) ==
    IF seq = <<>> THEN <<>> ELSE Insert(Head(seq), sorted(Tail(seq)))

\* Line 396: sorted(senders) of the set of senders.
SortedSenders(all_rows) ==
    SelectSeq(SortOrder, LAMBDA x : x \in Senders(all_rows))

\* Lines 400-405: the senders under their first name, in sorted order.
grouped_senders(senders) ==
    [fn \in {get_first_name(senders[i]) : i \in DOMAIN senders} |->
        SelectSeq(senders, LAMBDA sender : get_first_name(sender) = fn)]

\* The keys of grouped_senders in the order they were inserted.
GroupKeys(senders) ==
    LET names == [i \in DOMAIN senders |-> get_first_name(senders[i])]
        firsts == SelectSeq([i \in DOMAIN senders |-> i],
                            LAMBDA i : \A j \in 1..(i - 1) : names[j] # names[i])
    IN  [k \in DOMAIN firsts |-> names[firsts[k]]]

AllVariations == <<"(All", " ", "variations)">>

\* Lines 409-412: what stands for one group in the picker.
DisplayAlwaysCombined(fn, full_list) == fn \o <<" ">> \o AllVariations

Display(fn, full_list) ==
    IF Len(full_list) > 1
    THEN fn \o <<" ">> \o AllVariations
    ELSE full_list[1]

\* Lines 407-412.
display_senders(senders) ==
    LET grouped == grouped_senders(senders)
        keys == GroupKeys(senders)
    IN  [k \in DOMAIN keys |-> Display(keys[k], grouped[keys[k]])]

EndsWith(s, suffix) ==
    /\ Len(s) >= Len(suffix)
    /\ SubSeq(s, Len(s) - Len(suffix) + 1, Len(s)) = suffix

\* Lines 415-421: the senders the picked choices stand for.
RECURSIVE ExpandSelection(_, _)
ExpandSelection(selected_disp, grouped) ==
    IF selected_disp = <<>>
    THEN <<>>
    ELSE LET d == Head(selected_disp)
         IN  (IF EndsWith(d, AllVariations)
              THEN grouped[FirstToken(d)]
              ELSE <<d>>)
             \o ExpandSelection(Tail(selected_disp), grouped)

NoMultiselect == [shown |-> FALSE, options |-> <<>>, value |-> <<>>]

\* The button "Generate JSONL for Selected Senders" with "Group senders by
\* first name" ticked and selected_disp picked in the grouped multiselect.
GenerateJsonlGrouped(selected_disp) ==
    /\ initialized
    /\ csv.uploaded
    /\ LET all_rows == read_rows(csv)
           senders == SortedSenders(all_rows)
           options == sorted(display_senders(senders))
           selected_senders ==
               ExpandSelection(selected_disp, grouped_senders(senders))
       IN  /\ all_rows # <<>>
           /\ selected_disp \in GuiSelections(Range(options))
           /\ multiselect' = [shown |-> TRUE, options |-> options,
                              value |-> selected_disp]
           /\ RunBuild(all_rows, selected_senders)
    /\ jsonl_file' = (jsonl_file \/ (lastBuild'.status = "returned"
                                     /\ lastBuild'.count > 0))
    /\ UNCHANGED csv
    /\ UNCHANGED registryVars

\* build_jsonl_for_senders called with any list of senders.
CallBuild(selected_senders) ==
    /\ csv.uploaded
    /\ RunBuild(read_rows(csv), selected_senders)
    /\ UNCHANGED <<csv, multiselect, jsonl_file>>
    /\ UNCHANGED registryVars

\* The button "Start Fine-Tuning Job"; the provider accepts the file and the
\* job, or one of the two calls raises.
ProviderResults == {"created", "upload_error", "create_error"}

\* The job ids the provider hands out, each once, in this order.
JobIds == << <<"ftjob-1">>, <<"ftjob-2">> >>

JobsCreated(job_id) ==
    IF job_id = NoJob THEN 0 ELSE CHOOSE i \in DOMAIN JobIds : JobIds[i] = job_id

StartFineTuningJob(result) ==
    /\ initialized
    /\ IF jsonl_file /\ result = "created"
       THEN /\ JobsCreated(job) < Len(JobIds)
            /\ job' = JobIds[JobsCreated(job) + 1]
       ELSE UNCHANGED job
    /\ UNCHANGED <<disk, initialized, session, last, ops, publicView>>
    /\ UNCHANGED peerVars
    /\ UNCHANGED builderVars

\* f"{n}" for a natural number.
Digit(n) == <<"0", "1", "2", "3", "4", "5", "6", "7", "8", "9">>[n + 1]

RECURSIVE Decimal(_)
Decimal(n) ==
    IF n < 10 THEN <<Digit(n)>> ELSE Decimal(n \div 10) \o <<Digit(n % 10)>>

\* new_key = f"{ft_model}-{len(st.session_state['fine_tuned_models'])+1}"
NewKey(ft_model, models) ==
    ft_model \o <<"-">> \o Decimal(Cardinality(DOMAIN models) + 1)

\* What client.fine_tuning.jobs.retrieve can answer.
FtModels == {<<"ft:gpt-3.5-turbo:job">>}
JobStatuses ==
    {[status |-> "exception", fine_tuned_model |-> <<>>],
     [status |-> "pending", fine_tuned_model |-> <<>>],
     [status |-> "failed", fine_tuned_model |-> <<>>],
     [status |-> "succeeded", fine_tuned_model |-> <<>>]}
    \cup {[status |-> "succeeded", fine_tuned_model |-> m] : m \in FtModels}

\* "Monitor Fine-Tune Job": one poll of the current job.
MonitorJob(status, outcome) ==
    /\ initialized
    /\ job # NoJob
    /\ ops < MaxOps
    /\ IF status.status = "succeeded" /\ Truthy(status.fine_tuned_model)
       THEN LET ft_model == status.fine_tuned_model
                new_key == NewKey(ft_model, session)
                r == load_saved_models(disk)
                user_models == Put(r.models, new_key, Entry(ft_model, TRUE))
            IN  /\ session' = Put(session, new_key, Entry(ft_model, TRUE))
                /\ disk' = save_saved_models(disk, user_models, outcome)
                /\ last' = Last("record",
                                [NoArgs EXCEPT !.alias = new_key,
                                               !.id = ft_model,
                                               !.save = outcome,
                                               !.job = job],
                                LoadNotices(r) \cup SaveNotices(outcome)
                                    \cup {"success:fine_tuned"})
       ELSE /\ outcome = "ok"
            /\ last' = Last("poll", [NoArgs EXCEPT !.job = job],
                            CASE status.status = "exception" -> {"error:status"}
                              [] status.status = "failed" -> {"error:failed"}
                              [] status.status = "succeeded" -> {"warning:no_model"}
                              [] OTHER -> {})
            /\ UNCHANGED <<session, disk>>
    /\ ops' = ops + 1
    /\ UNCHANGED <<initialized, job, publicView>>
    /\ UNCHANGED peerVars
    /\ UNCHANGED builderVars

-----------------------------------------------------------------------------
(* public_app_v0.py: the models the public application offers. *)

\* load_saved_models of public_app_v0.py returns the file's object as it is.
public_load_saved_models(file) ==
    IF file.t = "dict" THEN [models |-> file.d, warned |-> FALSE]
    ELSE [models |-> EmptyDict, warned |-> file.t = "unreadable"]

\* Lines 51-57 for one value: the value is offered, is left out, or
\* model_info["id"] raises KeyError.
PublicValue(model_info) ==
    IF model_info.t = "obj" THEN
        IF GetPublic(model_info.o)
        THEN IF "id" \in DOMAIN model_info.o
             THEN [kind |-> "offered", id |-> model_info.o["id"]]
             ELSE [kind |-> "KeyError"]
        ELSE [kind |-> "left_out"]
    ELSE IF model_info.t = "str" THEN [kind |-> "offered", id |-> model_info.s]
    ELSE [kind |-> "left_out"]

\* Lines 45-57: public_models, or the exception that ends the run.
PublicModels(file) ==
    LET all_models == public_load_saved_models(file).models
        offered == {a \in DOMAIN all_models :
                        PublicValue(all_models[a]).kind = "offered"}
    IN  IF \E a \in DOMAIN all_models : PublicValue(all_models[a]).kind = "KeyError"
        THEN [status |-> "KeyError", models |-> EmptyDict]
        ELSE [status |-> "ok",
              models |-> [a \in offered |-> PublicValue(all_models[a]).id]]

NoPublicView == [ran |-> FALSE, status |-> "none", models |-> EmptyDict]

\* One run of create_public_gui up to the model selection.
PublicView ==
    /\ publicView' = [ran |-> TRUE, status |-> PublicModels(disk).status,
                      models |-> PublicModels(disk).models]
    /\ UNCHANGED <<disk, initialized, session, job, last, ops>>
    /\ UNCHANGED peerVars
    /\ UNCHANGED builderVars

-----------------------------------------------------------------------------
(* save_saved_models step by step, as a process next to this one sees it. *)

NoSave == [open |-> FALSE, before |-> FileMissing, models_dict |-> EmptyDict]

\* Line 67 in another admin session's Add/Update Model (lines 362-364):
\* open(MODELS_JSON_FILE, "w") truncates the file before anything is
\* written.  An empty file is not JSON: json.load raises on it.
OtherSaveOpens(alias_in, id_in, public_in) ==
    /\ ~writer.open
    /\ Truthy(Strip(alias_in)) /\ Truthy(Strip(id_in))
    /\ LET user_models ==
               Put(load_saved_models(disk).models, alias_in,
                   Entry(id_in, public_in))
       IN  writer' = [open |-> TRUE, before |-> disk, models_dict |-> user_models]
    /\ disk' = FileUnreadable
    /\ UNCHANGED <<initialized, session, job, last, ops, publicView, other>>
    /\ UNCHANGED builderVars

\* Line 68 and the end of the with block: json.dump writes the text and the
\* file is closed.  Until the last character is written the text is a
\* proper prefix of a JSON object, which json.load rejects like the empty
\* file.
OtherSaveWrites ==
    /\ writer.open
    /\ disk' = JsonDump(writer.models_dict)
    /\ writer' = NoSave
    /\ UNCHANGED <<initialized, session, job, last, ops, publicView, other>>
    /\ UNCHANGED builderVars

-----------------------------------------------------------------------------
(* A second admin session on the same file.  It runs the same handlers on its
   own st.session_state; its operations and those of the first session never
   overlap. *)

NoOther == [initialized |-> FALSE, session |-> EmptyDict, op |-> "none",
            targets |-> {}, save |-> "none"]

Other(models, op, targets, save) ==
    [initialized |-> TRUE, session |-> models, op |-> op, targets |-> targets,
     save |-> save]

\* Lines 143-149 in the second session.
OtherInitSession ==
    /\ ~other.initialized
    /\ other' = Other(MergeModels(PRE_CREATED_MODELS,
                                  load_saved_models(disk).models),
                      "init", {}, "none")
    /\ UNCHANGED <<disk, initialized, session, job, last, ops, publicView, writer>>
    /\ UNCHANGED builderVars

\* The button "Add/Update Model" in the second session.
OtherAddUpdateModel(alias_in, id_in, public_in, outcome) ==
    /\ other.initialized
    /\ ops < MaxOps
    /\ IF Truthy(Strip(alias_in)) /\ Truthy(Strip(id_in))
       THEN LET user_models == Put(load_saved_models(disk).models, alias_in,
                                   Entry(id_in, public_in))
            IN  /\ other' = Other(Put(other.session, alias_in,
                                      Entry(id_in, public_in)),
                                  "add_update", {alias_in}, outcome)
                /\ disk' = save_saved_models(disk, user_models, outcome)
       ELSE /\ outcome = "ok"
            /\ other' = Other(other.session, "add_update", {alias_in}, "none")
            /\ UNCHANGED disk
    /\ ops' = ops + 1
    /\ UNCHANGED <<initialized, session, job, last, publicView, writer>>
    /\ UNCHANGED builderVars

\* The button "Save All Changes" in the second session; the rows it targets
\* are those edited in the form and those flagged for removal.
OtherSaveAllChanges(edits, removed_aliases, outcome) ==
    /\ other.initialized
    /\ ops < MaxOps
    /\ other.session # EmptyDict
    /\ LET updated_data == FormData(other.session, edits)
           user_models ==
               UserModelsAfterSave(load_saved_models(disk).models,
                                   updated_data, removed_aliases)
       IN  /\ other' = Other(SessionAfterSave(other.session, updated_data,
                                              removed_aliases),
                             "save_all", DOMAIN edits \cup removed_aliases,
                             outcome)
           /\ disk' = save_saved_models(disk, user_models, outcome)
    /\ ops' = ops + 1
    /\ UNCHANGED <<initialized, session, job, last, publicView, writer>>
    /\ UNCHANGED builderVars

-----------------------------------------------------------------------------
(* Inputs: the files the program can find when it starts. *)

\* Sequences over S of length lo..hi.
SeqsOf(S, lo, hi) == UNION {[1..n -> S] : n \in lo..hi}

DiskAliases == {Alias1, <<"u1">>}

DiskValues ==
    {JsonStr(<<"ft:legacy">>),
     JsonObj([id |-> <<"ft:disk">>]),
     JsonObj([id |-> <<"ft:disk">>, public |-> TRUE]),
     JsonObj([id |-> <<"ft:disk">>, public |-> FALSE]),
     JsonObj([public |-> TRUE]),
     JsonObj([public |-> FALSE]),
     JsonObj(EmptyObj),
     JsonOther}

InitialDisks ==
    {FileMissing, FileUnreadable, FileNotDict}
    \cup UNION {{FileDict(d) : d \in [A -> DiskValues]} : A \in SUBSET DiskAliases}

Headers == {<<From, Subject, Body>>, <<From, Body>>, <<From, Subject>>}

CellValues(column) ==
    CASE column = From -> {<<"a">>, <<"A", " ">>, <<"b">>}
      [] column = Subject -> {<<"s">>}
      [] OTHER -> {<<"x">>, <<" ", "y">>}

AllCells == CellValues(From) \cup CellValues(Subject) \cup CellValues(Body)

\* The lines a file with this header can hold: blank, complete, or short.
LinesFor(header) ==
    {l \in SeqsOf(AllCells, 0, Len(header)) :
        \A i \in DOMAIN l : l[i] \in CellValues(header[i])}

NotUploaded == [uploaded |-> FALSE, header |-> <<>>, lines |-> <<>>]
Csv(header, lines) == [uploaded |-> TRUE, header |-> header, lines |-> lines]

CsvInputs ==
    {NotUploaded}
    \cup UNION {{Csv(h, ls) : ls \in SeqsOf(LinesFor(h), 0, MaxRows)} : h \in Headers}

SampleCsv == Csv(<<From, Subject, Body>>, << <<<<"a">>, <<"s">>, <<"x">>>> >>)

\* The sender lists build_jsonl_for_senders is called with directly.
SelectionValues == {<<"a">>, <<"A">>, <<"a", " ">>, <<"b">>}
Selections ==
    {<<x>> : x \in SelectionValues} \cup {<<x, <<"b">>>> : x \in SelectionValues}

-----------------------------------------------------------------------------
(* Specifications. *)

InitRegistry(file) ==
    /\ disk = file
    /\ initialized = FALSE
    /\ session = EmptyDict
    /\ job = NoJob
    /\ last = Last("none", NoArgs, {})
    /\ ops = 0
    /\ publicView = NoPublicView
    /\ writer = NoSave
    /\ other = NoOther

InitBuilder(file) ==
    /\ csv = file
    /\ outFile = NoFile
    /\ lastBuild = NoBuild
    /\ multiselect = NoMultiselect
    /\ jsonl_file = FALSE

\* The files an admin session starts with: none, an unreadable one, one in
\* the legacy formats, one with an entry that has no id.
LegacyDisk ==
    FileDict((Alias1 :> JsonObj([id |-> <<"ft:disk">>]))
             @@ (<<"u1">> :> JsonStr(<<"ft:legacy">>)))
InvalidDisk ==
    FileDict((Alias1 :> JsonObj([id |-> <<"ft:disk">>, public |-> FALSE]))
             @@ (<<"u1">> :> JsonObj([public |-> TRUE])))

StartDisks == {FileMissing, FileUnreadable, LegacyDisk, InvalidDisk}

\* What the user submits with "Add/Update Model": alias, model ID, Public?.
UpsertInputs ==
    {<<a, <<"ft:new">>, p>> : a \in {<<"u1">>, <<"u2", " ">>, Alias2}, p \in BOOLEAN}
    \cup {<< <<>>, <<"ft:new">>, TRUE >>, << <<" ">>, <<"ft:new">>, FALSE >>,
          << <<"u1">>, <<>>, TRUE >>, << <<"u1">>, <<" ">>, FALSE >>,
          << <<>>, <<>>, TRUE >>}

\* What the user submits with "Save All Changes": nothing changed, or one row
\* of a built-in or of a user model edited or flagged for removal.
FormAliases == {Alias1, <<"u1">>}
EditValues == {Entry(<<>>, TRUE), Entry(<<"ft:edit">>, FALSE)}

FormInputs(all_models) ==
    LET rows == FormAliases \cap DOMAIN all_models
    IN  {[edits |-> EmptyDict, removed |-> {}]}
        \cup {[edits |-> EmptyDict, removed |-> {a}] : a \in rows}
        \cup {[edits |-> (a :> v), removed |-> {}] : a \in rows, v \in EditValues}

\* The admin session: registry operations and the fine-tune flow.
Init ==
    /\ \E file \in StartDisks : InitRegistry(file)
    /\ InitBuilder(SampleCsv)

Next ==
    \/ InitSession
    \/ \E in \in UpsertInputs, outcome \in SaveOutcomes :
           AddUpdateModel(in[1], in[2], in[3], outcome)
    \/ \E in \in FormInputs(session), outcome \in SaveOutcomes :
           SaveAllChanges(in.edits, in.removed, outcome)
    \/ \E sel \in GuiSelections(Senders(read_rows(csv))) : GenerateJsonl(sel)
    \/ \E result \in ProviderResults : StartFineTuningJob(result)
    \/ \E status \in JobStatuses, outcome \in SaveOutcomes :
           MonitorJob(status, outcome)

Spec == Init /\ [][Next]_vars

\* The admin session's registry operations next to runs of the public
\* application on the same file.
NextPublic ==
    \/ InitSession
    \/ \E in \in UpsertInputs, outcome \in SaveOutcomes :
           AddUpdateModel(in[1], in[2], in[3], outcome)
    \/ \E in \in FormInputs(session), outcome \in SaveOutcomes :
           SaveAllChanges(in.edits, in.removed, outcome)
    \/ PublicView

SpecPublic == Init /\ [][NextPublic]_vars

\* Two admin sessions on one file, one operation at a time.
NextPeers ==
    \/ InitSession
    \/ \E in \in UpsertInputs, outcome \in SaveOutcomes :
           AddUpdateModel(in[1], in[2], in[3], outcome)
    \/ OtherInitSession
    \/ \E in \in UpsertInputs, outcome \in SaveOutcomes :
           OtherAddUpdateModel(in[1], in[2], in[3], outcome)
    \/ \E in \in FormInputs(other.session), outcome \in SaveOutcomes :
           OtherSaveAllChanges(in.edits, in.removed, outcome)

SpecPeers == Init /\ [][NextPeers]_vars

\* Start-up of the admin session and of the public application on any file.
InitLoad ==
    /\ \E file \in InitialDisks : InitRegistry(file)
    /\ InitBuilder(NotUploaded)

NextLoad == InitSession \/ PublicView

SpecLoad == InitLoad /\ [][NextLoad]_vars

\* Loads by the admin session and by the public application next to a save
\* by another process.
NextSave ==
    \/ InitSession
    \/ PublicView
    \/ \E in \in UpsertInputs : OtherSaveOpens(in[1], in[2], in[3])
    \/ OtherSaveWrites

SpecSave == InitLoad /\ [][NextSave]_vars

\* The builder on any uploaded file, driven from the form.
InitBuild ==
    /\ InitRegistry(FileMissing)
    /\ \E file \in CsvInputs : InitBuilder(file)

NextBuild ==
    \/ InitSession
    \/ \E sel \in GuiSelections(Senders(read_rows(csv))) : GenerateJsonl(sel)

SpecBuild == InitBuild /\ [][NextBuild]_vars

\* The senders of the grouping example, in the order of the file's rows: two
\* with the first name Al, two with Bob (one of them the bare first name), and
\* two with Cy (one of them a name that ends like a combined choice).
GroupSenders ==
    << <<"Bob", " ", "L">>, <<"Cy", " ", "Z">>, <<"Al", " ", "S">>,
       <<"Cy", " ", "(All", " ", "variations)">>,
       <<"Al", " ", "J">>, <<"Bob">> >>

GroupCsv(S) ==
    LET picked == SelectSeq(GroupSenders, LAMBDA x : x \in S)
    IN  Csv(<<From, Body>>, [i \in DOMAIN picked |-> <<picked[i], <<"x">>>>])

GroupCsvInputs == {GroupCsv(S) : S \in SUBSET Range(GroupSenders)}

\* The grouped picker on files with any of these senders.
InitGroup ==
    /\ InitRegistry(FileMissing)
    /\ \E file \in GroupCsvInputs : InitBuilder(file)

NextGroup ==
    \/ InitSession
    \/ \E sel \in GuiSelections(Range(SortOrder)) : GenerateJsonlGrouped(sel)

SpecGroup == InitGroup /\ [][NextGroup]_vars

\* build_jsonl_for_senders on any rows and any list of senders.
NextFilter == \E sel \in Selections : CallBuild(sel)

SpecFilter == InitBuild /\ [][NextFilter]_vars

-----------------------------------------------------------------------------
(* Properties of the start-up (SpecLoad). *)

FileValues == IF disk.t = "dict" THEN disk.d ELSE EmptyDict

HasId(val) == val.t = "obj" /\ "id" \in DOMAIN val.o
HasPublic(val) == val.t = "obj" /\ "public" \in DOMAIN val.o
\* A value of the file that is an entry: a legacy string or an object with an id.
ValidValue(val) == val.t = "str" \/ HasId(val)
\* An object without an id.
InvalidObject(val) == val.t = "obj" /\ "id" \notin DOMAIN val.o

\* C1: when the admin session is initialized, the merged view is the
\* built-in entries overlaid by the entries loaded from the file: an alias
\* loaded from the file maps to the file's entry as a whole, a built-in alias
\* not loaded from the file maps to the built-in entry, and there is no other
\* alias.
C1_MergedViewAtInit ==
    last.op = "init" =>
        LET user_models == load_saved_models(disk).models
        IN  /\ DOMAIN session = DOMAIN PRE_CREATED_MODELS \cup DOMAIN user_models
            /\ \A a \in DOMAIN user_models :
                   /\ session[a]["id"] = user_models[a]["id"]
                   /\ session[a]["public"] = user_models[a]["public"]
                   /\ ValidValue(FileValues[a])
            /\ \A a \in DOMAIN PRE_CREATED_MODELS \ DOMAIN user_models :
                   session[a] = PRE_CREATED_MODELS[a]

\* A built-in alias overridden by the file (other id, other public flag) next
\* to a built-in alias the file does not hold.
C1_Witness ==
    /\ last.op = "init"
    /\ Alias1 \in DOMAIN load_saved_models(disk).models
    /\ session[Alias1] = Entry(<<"ft:disk">>, FALSE)
    /\ session[Alias1]["public"] # PRE_CREATED_MODELS[Alias1]["public"]
    /\ session[Alias2] = PRE_CREATED_MODELS[Alias2]

\* C5: load normalizes the file: a bare string s loads as {id: s, public:
\* true}, an object with an id and no public loads with public = true, and an
\* object with an explicit public keeps it; seen in the mapping load returns
\* and in the session initialized from it.
C5_LoadNormalizes ==
    LET loaded == load_saved_models(disk).models
    IN  \A a \in DOMAIN FileValues :
            LET val == FileValues[a]
                expected ==
                    IF val.t = "str" THEN Entry(val.s, TRUE)
                    ELSE IF HasPublic(val)
                         THEN Entry(val.o["id"], val.o["public"])
                         ELSE Entry(val.o["id"], TRUE)
            IN  ValidValue(val) =>
                    /\ a \in DOMAIN loaded
                    /\ loaded[a] = expected
                    /\ last.op = "init" => (a \in DOMAIN session /\ session[a] = expected)

\* A session initialized from a file with a legacy string.
C5_Witness ==
    /\ last.op = "init"
    /\ <<"u1">> \in DOMAIN FileValues
    /\ FileValues[<<"u1">>] = JsonStr(<<"ft:legacy">>)
    /\ session[<<"u1">>] = Entry(<<"ft:legacy">>, TRUE)
    /\ Alias1 \in DOMAIN FileValues
    /\ FileValues[Alias1] = JsonObj([id |-> <<"ft:disk">>])
    /\ session[Alias1] = Entry(<<"ft:disk">>, TRUE)

\* C6: an object without an id is silently dropped on load, by the admin
\* loader and by the public application: it contributes no alias, causes no
\* error or failure, and the valid entries of the file are still loaded.
C6_InvalidEntriesDropped ==
    /\ last.op = "init" =>
           \A a \in DOMAIN FileValues :
               /\ InvalidObject(FileValues[a]) =>
                      a \notin DOMAIN load_saved_models(disk).models
               /\ ValidValue(FileValues[a]) => a \in DOMAIN session
    /\ publicView.ran =>
           /\ publicView.status = "ok"
           /\ \A a \in DOMAIN FileValues :
                  /\ InvalidObject(FileValues[a]) => a \notin DOMAIN publicView.models
                  /\ (ValidValue(FileValues[a])
                        /\ (HasPublic(FileValues[a]) => FileValues[a].o["public"]))
                     => a \in DOMAIN publicView.models

-----------------------------------------------------------------------------
(* Properties of the registry operations (Spec). *)

\* A string that is empty or holds whitespace only.
Blank(s) == \A i \in DOMAIN s : s[i] \in Whitespace

Loaded == load_saved_models(disk).models
SaveFailed == last.save \in {"open_fails", "write_fails"}

\* C2, as stated: after every Add/Update Model with a non-empty alias and a
\* non-empty id the merged view maps the alias to {id, public} as given and,
\* when the save succeeds, so does a load of the file.
C2_UpsertNonEmpty ==
    (last.op = "add_update" /\ last.alias # <<>> /\ last.id # <<>>) =>
        /\ last.alias \in DOMAIN session
        /\ session[last.alias] = Entry(last.id, last.public)
        /\ last.save = "ok" =>
               (last.alias \in DOMAIN Loaded
                /\ Loaded[last.alias] = Entry(last.id, last.public))

\* C2, amended: the same for every Add/Update Model whose alias and id are
\* non-empty after trimming surrounding whitespace.
C2_UpsertRoundTrip ==
    (last.op = "add_update" /\ ~Blank(last.alias) /\ ~Blank(last.id)) =>
        /\ last.alias \in DOMAIN session
        /\ session[last.alias] = Entry(last.id, last.public)
        /\ last.save \in SaveOutcomes
        /\ last.save = "ok" =>
               (last.alias \in DOMAIN Loaded
                /\ Loaded[last.alias] = Entry(last.id, last.public))

\* An upsert that overrides a built-in alias, in the session and in the file.
C2_Witness ==
    /\ last.op = "add_update"
    /\ last.save = "ok"
    /\ last.alias = Alias2
    /\ session[Alias2] = Entry(<<"ft:new">>, TRUE)
    /\ Alias2 \in DOMAIN Loaded
    /\ Loaded[Alias2] = Entry(<<"ft:new">>, TRUE)
    /\ session[Alias2] # PRE_CREATED_MODELS[Alias2]

\* C3: an Add/Update Model with an empty or whitespace-only alias or id
\* changes neither the merged view nor the file and reports a warning.
C3_RejectedUpsert ==
    [][(last'.op = "add_update" /\ ops' = ops + 1
          /\ (Blank(last'.alias) \/ Blank(last'.id)))
       => (/\ session' = session
           /\ disk' = disk
           /\ last'.notices = {"warning:validation"})]_vars

\* A rejected upsert with a whitespace-only alias.
C3_Witness ==
    /\ last.op = "add_update"
    /\ last.alias = <<" ">>
    /\ ~Blank(last.id)
    /\ last.notices = {"warning:validation"}

C7_WriteFailureKeepsSession ==
    (last.op \in {"add_update", "save_all", "record"} /\ SaveFailed) =>
        /\ "error:save" \in last.notices
        /\ \E n \in {"success:added", "success:all_saved", "success:fine_tuned"} :
               n \in last.notices
        /\ last.op \in {"add_update", "record"} =>
               (last.alias \in DOMAIN session
                /\ session[last.alias] = Entry(last.id, last.public))
        /\ last.op = "save_all" =>
               /\ \A a \in last.removed : a \notin DOMAIN session
               /\ \A a \in DOMAIN last.updated \ last.removed :
                      a \in DOMAIN session /\ session[a] = last.updated[a]

\* A failed write after which the session holds an alias the file does not.
C7_Witness ==
    /\ last.op = "add_update"
    /\ SaveFailed
    /\ last.alias \in DOMAIN session
    /\ last.alias \notin DOMAIN Loaded
    /\ session # MergeModels(PRE_CREATED_MODELS, Loaded)

-----------------------------------------------------------------------------
(* Properties of the builder (SpecFilter, SpecBuild). *)

Rows == read_rows(csv)
Taken == Range(lastBuild.taken)

\* The value of a field, the empty string when the row has none.
FieldOrEmpty(row, key) ==
    IF key \in DOMAIN row /\ ~row[key].none THEN row[key].s ELSE <<>>

FieldAbsent(row, key) == key \notin DOMAIN row \/ row[key].none

\* The line the claims expect for a row.
ExpectedLine(row) ==
    DataLine(Strip(FieldOrEmpty(row, Subject)), Strip(FieldOrEmpty(row, Body)))

\* C8, as stated, for the rows the build examines: a row is selected exactly
\* when its sender, trimmed and lower-cased, equals some selected sender that
\* has likewise been trimmed and lower-cased.
C8_SenderMatchBothTrimmed ==
    lastBuild.called =>
        \A i \in 1..lastBuild.examined :
            i \in Taken <=>
                \E k \in DOMAIN lastBuild.selected :
                    Lower(Strip(SenderOf(Rows[i])))
                        = Lower(Strip(lastBuild.selected[k]))

\* C8, amended: a row the build examines is selected exactly when its sender,
\* trimmed and lower-cased, equals some selected sender lower-cased (the
\* selected senders are not trimmed); a build that returns examined every row.
C8_SenderMatch ==
    lastBuild.called =>
        /\ \A i \in 1..lastBuild.examined :
               i \in Taken <=>
                   \E k \in DOMAIN lastBuild.selected :
                       Lower(Strip(SenderOf(Rows[i])))
                           = Lower(lastBuild.selected[k])
        /\ lastBuild.examined <= Len(Rows)
        /\ lastBuild.status = "returned" => lastBuild.examined = Len(Rows)

\* Selecting "a" takes a row whose sender is "A " (other case, trailing space).
C8_Witness ==
    /\ lastBuild.called
    /\ lastBuild.selected = << <<"a">> >>
    /\ \E i \in Taken : SenderOf(Rows[i]) = <<"A", " ">>

RECURSIVE ExpectedLines(_, _)
ExpectedLines(all_rows, selected_senders) ==
    IF all_rows = <<>> THEN <<>>
    ELSE LET row == Head(all_rows)
             rest == ExpectedLines(Tail(all_rows), selected_senders)
         IN  IF \E k \in DOMAIN selected_senders :
                    Lower(Strip(SenderOf(row))) = Lower(selected_senders[k])
             THEN <<ExpectedLine(row)>> \o rest
             ELSE rest

\* C9: after any sequence of builds the output file holds exactly the records
\* of the most recent build: one line per selected row, in row order, each
\* [user, assistant] with the trimmed body, and the build returns the number
\* of lines.
C9_FileHoldsLastBuild ==
    lastBuild.called =>
        /\ outFile.exists
        /\ outFile.lines = ExpectedLines(Rows, lastBuild.selected)
        /\ lastBuild.status = "returned"
        /\ lastBuild.count = Len(outFile.lines)

\* C10: a selected row whose subject or body is absent (no such column, or a
\* row shorter than the header) is built with the empty string for the absent
\* field, and the build does not fail.
C10_AbsentFieldsDefaultEmpty ==
    lastBuild.called =>
        \A k \in DOMAIN lastBuild.taken :
            LET row == Rows[lastBuild.taken[k]]
            IN  (FieldAbsent(row, Subject) \/ FieldAbsent(row, Body)) =>
                    /\ lastBuild.status = "returned"
                    /\ k <= Len(outFile.lines)
                    /\ outFile.lines[k] = ExpectedLine(row)

-----------------------------------------------------------------------------
(* Properties of the grouped sender picker (SpecGroup). *)

\* The part of a trimmed name before its first whitespace character.
FirstWord(s) ==
    LET ws == {i \in DOMAIN s : s[i] = " "}
    IN  IF ws = {} THEN s
        ELSE SubSeq(s, 1, (CHOOSE i \in ws : \A j \in ws : i <= j) - 1)

\* The senders of the file, partitioned by first word.
SenderGroups ==
    LET S == Senders(Rows)
    IN  {{t \in S : FirstWord(t) = FirstWord(s)} : s \in S}

\* The choice that stands for a group.
ChoiceOf(G) ==
    IF Cardinality(G) > 1
    THEN FirstWord(CHOOSE s \in G : TRUE) \o <<" ", "(All", " ", "variations)">>
    ELSE CHOOSE s \in G : TRUE

\* C11: with grouping on, the picker offers exactly one choice per group of
\* senders sharing their first whitespace-delimited token, the combined
\* choice for a group of several senders and the sender itself for a group
\* of one, and the senders selected are exactly the members of the groups
\* whose choices were picked, each once.
C11_GroupedSelection ==
    (multiselect.shown /\ lastBuild.called) =>
        /\ Range(multiselect.options) = {ChoiceOf(G) : G \in SenderGroups}
        /\ Len(multiselect.options) = Cardinality(SenderGroups)
        /\ Range(lastBuild.selected) =
               UNION {G \in SenderGroups : ChoiceOf(G) \in Range(multiselect.value)}
        /\ Distinct(lastBuild.selected)

\* A combined choice and a single sender picked together.
C11_Witness ==
    /\ multiselect.shown
    /\ lastBuild.called
    /\ multiselect.value = << <<"Al", " ", "(All", " ", "variations)">>, <<"Bob">> >>
    /\ Len(multiselect.options) = 3
    /\ Len(lastBuild.selected) = 3

-----------------------------------------------------------------------------
(* Properties of the public application next to the admin session
   (SpecPublic). *)

\* The object entries of the file whose public flag is true or absent.
PublicObject(val) ==
    val.t = "obj" /\ (HasPublic(val) => val.o["public"] = TRUE)

\* C12: whatever the file holds when the public application runs, the
\* aliases it offers are exactly the legacy string entries plus the object
\* entries whose public flag is true or absent; an entry whose public flag is
\* false is never offered.
C12_PublicOffersExactly ==
    [][PublicView =>
          DOMAIN publicView'.models =
              {a \in DOMAIN FileValues :
                  FileValues[a].t = "str" \/ PublicObject(FileValues[a])}]_vars

-----------------------------------------------------------------------------
(* Properties of the fine-tune monitor (Spec). *)

\* C13: a poll that finds the job succeeded with a fine_tuned_model adds
\* exactly one entry for that model, public, to the merged view and (when
\* the save succeeds) to the file, and a further poll of the same job after
\* it was recorded leaves the merged view and the file unchanged.
C13_RecordedOnce ==
    [][/\ (last'.op = "record" /\ ops' = ops + 1) =>
             /\ last'.alias \notin DOMAIN session
             /\ session' = Put(session, last'.alias, Entry(last'.id, TRUE))
             /\ last'.save = "ok" =>
                    /\ last'.alias \notin DOMAIN Loaded
                    /\ Loaded' = Put(Loaded, last'.alias, Entry(last'.id, TRUE))
       /\ (/\ last.op = "record"
           /\ last'.op \in {"record", "poll"}
           /\ ops' = ops + 1
           /\ last'.job = last.job)
          => (session' = session /\ disk' = disk)]_vars

-----------------------------------------------------------------------------
(* Properties of loads next to a save in progress (SpecSave). *)

\* C14: a load by the admin session or by the public application that runs
\* while another process is inside save_saved_models sees the complete
\* mapping the file held before the save or the complete new mapping.
C14_ReaderSeesOldOrNew ==
    [][writer.open =>
          LET old == writer.before
              new == JsonDump(writer.models_dict)
          IN  /\ (initialized' /\ ~initialized) =>
                     session' \in
                         {MergeModels(PRE_CREATED_MODELS, load_saved_models(f).models) :
                             f \in {old, new}}
              /\ PublicView =>
                     publicView'.models \in {PublicModels(f).models : f \in {old, new}}]_vars

-----------------------------------------------------------------------------
(* Properties of two admin sessions on one file (SpecPeers). *)

\* C15: an entry that a successful Add/Update Model of one session wrote to
\* the file is still in the file, with the same id and public flag, after an
\* operation of the other session that saves and does not target its alias:
\* an Add/Update Model of another alias, or a Save All Changes in which the
\* alias was neither edited nor flagged for removal.
C15_OtherSessionKeepsEntry ==
    [][(/\ last.op = "add_update"
        /\ last.save = "ok"
        /\ last.alias \in DOMAIN Loaded
        /\ Loaded[last.alias] = Entry(last.id, last.public)
        /\ other' # other
        /\ other'.op \in {"add_update", "save_all"}
        /\ other'.save = "ok"
        /\ last.alias \notin other'.targets)
       => /\ last.alias \in DOMAIN Loaded'
          /\ Loaded'[last.alias] = Entry(last.id, last.public)]_vars

-----------------------------------------------------------------------------
(* Properties of the session against the file (Spec). *)

\* The merged view an initialization would compute from the file as it is.
FreshView == MergeModels(PRE_CREATED_MODELS, Loaded)

\* C16: the merged view of the session is the one a fresh initialization
\* would compute from the built-ins and the file: it is so when the session
\* starts, every Add/Update Model, Save All Changes and recording of a
\* fine-tuned model whose save succeeds keeps it so, and an alias removed by
\* Save All Changes is not in the view a fresh initialization computes.
C16_SessionIsFreshView ==
    [][/\ (initialized' /\ ~initialized) => session' = FreshView'
       /\ (/\ initialized
           /\ session = FreshView
           /\ ~SaveFailed
           /\ ops' = ops + 1
           /\ ~SaveFailed')
          => /\ session' = FreshView'
             /\ \A a \in last'.removed : a \notin DOMAIN FreshView']_vars

\* A value of the file that carries a non-empty id.
FileIdNonEmpty(val) ==
    \/ val.t = "str" /\ val.s # <<>>
    \/ HasId(val) /\ val.o["id"] # <<>>

AllIdsNonEmpty ==
    /\ \A a \in DOMAIN session : session[a]["id"] # <<>>
    /\ \A a \in DOMAIN FileValues : FileIdNonEmpty(FileValues[a])

\* C17: when every entry of the merged view and of the file has a non-empty
\* id, it is still so after any step: no Add/Update Model, Save All Changes
\* (with edits of the Model ID or removals) or other operation produces an
\* entry whose id is empty.
C17_IdsStayNonEmpty ==
    [][AllIdsNonEmpty => AllIdsNonEmpty']_vars

====
